---- MODULE Spec2Model ----
(***************************************************************************)
(* Model of package googlespreadsheet (googlespreadsheet.go).              *)
(*                                                                         *)
(* Go strings are modelled as sequences of bytes (naturals 0..255), so     *)
(* that conversions (string(int), strconv.Itoa) are computed rather than   *)
(* assumed.  A *http.Client is modelled by a natural number: 0 is the nil  *)
(* pointer, n > 0 is the client built by the n-th call of googleAuth.      *)
(***************************************************************************)
EXTENDS Integers, Sequences, FiniteSets

VARIABLES
    col,          \* argument of the ColAddress call under test
    colDone,      \* TRUE once ColAddress(col) has returned
    colRet,       \* the string ColAddress(col) returned
    credentials,  \* Config.GoogleCredentials: "valid" or "malformed" JSON key
    client,       \* Config.Client (Nil or a client identity)
    nAuth,        \* number of googleAuth calls made so far
    last,         \* the last completed exported call: arguments and outcome
    pc,           \* concurrent callers: position of each goroutine in its call
    seen,         \* concurrent callers: the Client value each one read at the nil check
    made,         \* concurrent callers: the client each one's googleAuth returned
    auths         \* concurrent callers: how many times each one called googleAuth

colVars  == <<col, colDone, colRet>>
cfgVars  == <<credentials, client, nAuth>>
seqVars  == <<last>>
concVars == <<pc, seen, made, auths>>
vars     == <<col, colDone, colRet, credentials, client, nAuth, last, pc, seen, made, auths>>

----------------------------------------------------------------------------
(* Bounds of the model *)

MaxUnder == 3        \* ColAddress is tried on columns down to -MaxUnder
MaxOver == 4         \* ... and up to FirstInvalidCol + MaxOver
MaxRows == 3         \* rows of a [][]interface{} argument or of a read response
MaxCols == 2         \* cells of one row of a [][]interface{}
MaxMapRows == 2      \* rows of a []map[string]interface{} argument
MaxAuth == 2         \* googleAuth calls in one behaviour
NProcs == 2          \* goroutines sharing one Config

(* Constants of the program *)

FirstInvalidCol == 675       \* if col >= 675 ...
LastSingleLetterCol == 26    \* if col <= 26 ...

----------------------------------------------------------------------------
(* Go strings as byte sequences *)

Alphabet == <<65, 66, 67, 68, 69, 70, 71, 72, 73, 74, 75, 76, 77,
              78, 79, 80, 81, 82, 83, 84, 85, 86, 87, 88, 89, 90>>   \* "A".."Z"

UpperCase == {Alphabet[i] : i \in 1..Len(Alphabet)}

\* string(r) for an integer r: the UTF-8 encoding of the rune r, or of U+FFFD
\* when r is not a valid rune.
RuneToString(r) ==
    IF r < 0 \/ r > 1114111 \/ (r >= 55296 /\ r <= 57343) THEN <<239, 191, 189>>
    ELSE IF r < 128 THEN <<r>>
    ELSE IF r < 2048 THEN <<192 + (r \div 64), 128 + (r % 64)>>
    ELSE IF r < 65536 THEN <<224 + (r \div 4096), 128 + ((r \div 64) % 64), 128 + (r % 64)>>
    ELSE <<240 + (r \div 262144), 128 + ((r \div 4096) % 64),
           128 + ((r \div 64) % 64), 128 + (r % 64)>>

\* Go's integer division truncates toward zero and % takes the sign of the
\* dividend.
GoDiv(a, b) == IF a >= 0 THEN a \div b ELSE 0 - ((0 - a) \div b)
GoMod(a, b) == a - b * GoDiv(a, b)

\* A plausible slip: the bound of the doc comment (> 675) instead of >= 675.
ColAddressDocBound(c) ==
    IF c > 675 \/ c < 1 THEN <<>>
    ELSE IF c <= 26 THEN RuneToString(65 + c - 1)
    ELSE RuneToString(65 + GoDiv(c, 26) - 1) \o RuneToString(65 + GoMod(c, 26) - 1)

\* A plausible slip: the letter offset not shifted down by one.
ColAddressNoShift(c) ==
    IF c >= 675 \/ c < 1 THEN <<>>
    ELSE IF c <= 26 THEN RuneToString(65 + c)
    ELSE RuneToString(65 + GoDiv(c, 26) - 1) \o RuneToString(65 + GoMod(c, 26) - 1)

ColAddress(c) ==
    IF c >= 675 \/ c < 1 THEN <<>>
    ELSE IF c <= 26 THEN RuneToString(65 + c - 1)
    ELSE RuneToString(65 + GoDiv(c, 26) - 1) \o RuneToString(65 + GoMod(c, 26) - 1)

\* strconv.Itoa
RECURSIVE Digits(_)
Digits(n) == IF n < 10 THEN <<48 + n>> ELSE Digits(n \div 10) \o <<48 + (n % 10)>>

Itoa(n) == IF n < 0 THEN <<45>> \o Digits(0 - n) ELSE Digits(n)

\* s < t in Go's string order (bytewise lexicographic), as sort.Strings uses it
RECURSIVE StrLess(_, _)
StrLess(s, t) ==
    IF Len(t) = 0 THEN FALSE
    ELSE IF Len(s) = 0 THEN TRUE
    ELSE IF s[1] # t[1] THEN s[1] < t[1]
    ELSE StrLess(Tail(s), Tail(t))

----------------------------------------------------------------------------
(* interface{} values: the scalars of the data model *)

Null       == [kind |-> "null",   str |-> <<>>, int |-> 0, bool |-> FALSE]
StrVal(s)  == [kind |-> "string", str |-> s,    int |-> 0, bool |-> FALSE]
IntVal(i)  == [kind |-> "int",    str |-> <<>>, int |-> i, bool |-> FALSE]
BoolVal(b) == [kind |-> "bool",   str |-> <<>>, int |-> 0, bool |-> b]

StrTrue  == <<116, 114, 117, 101>>         \* "true"
StrFalse == <<102, 97, 108, 115, 101>>     \* "false"

----------------------------------------------------------------------------
(* Errors and results *)

Nil == 0                      \* the nil *http.Client

ErrNil       == "nil"
ErrAuth      == "auth"        \* the error of google.JWTConfigFromJSON
ErrService   == "service"     \* the error of sheets.New
ErrTransport == "transport"   \* the error of a remote call's Do()
ErrStatus    == "status"      \* "Wrong http return code %d "
ErrEmpty     == "empty"       \* "Empty template"

NilArray   == [isNil |-> TRUE,  rows |-> <<>>]     \* a nil [][]interface{}
Array(v)   == [isNil |-> FALSE, rows |-> v]

\* One request sent to the remote service, with the client it was sent through.
Call(kind, range, values, via) ==
    [kind |-> kind, range |-> range, values |-> values, via |-> via]

\* What a handler leaves behind: Config.Client, the count of googleAuth calls,
\* the returned error and array, the requests sent, whether it called googleAuth.
Out(c, n, err, ret, calls, au) ==
    [client |-> c, nAuth |-> n, err |-> err, ret |-> ret, calls |-> calls, authed |-> au]

----------------------------------------------------------------------------
(* Authentication *)

googleAuth(creds, n) ==
    IF creds = "valid" THEN [client |-> n + 1, err |-> ErrNil]
    ELSE [client |-> Nil, err |-> ErrAuth]

\* A plausible slip: the nil test dropped, authenticating on every call.
NotAuthorizedAlways(c) == TRUE

\* if googleConf.Client == nil { //not authorized yet
NotAuthorized(c) == c = Nil

\* The prologue every remote operation starts with:
\*   if googleConf.Client == nil {
\*       googleConf.Client, err = googleAuth(googleConf.GoogleCredentials)
\*       if err != nil { return err }
\*   }
EnsureClient(c, creds, n) ==
    IF NotAuthorized(c)
    THEN LET a == googleAuth(creds, n)
         IN [client |-> a.client, err |-> a.err, nAuth |-> n + 1, authed |-> TRUE]
    ELSE [client |-> c, err |-> ErrNil, nAuth |-> n, authed |-> FALSE]

----------------------------------------------------------------------------
(* The handlers, as functions of the Config and the remote response *)

ClearRangeOut(c, creds, n, theRange, resp) ==
    LET e == EnsureClient(c, creds, n) IN
    IF e.err # ErrNil THEN Out(e.client, e.nAuth, e.err, NilArray, <<>>, e.authed)
    ELSE IF e.client = Nil THEN Out(e.client, e.nAuth, ErrService, NilArray, <<>>, e.authed)
    ELSE Out(e.client, e.nAuth, IF resp.err THEN ErrTransport ELSE ErrNil, NilArray,
             <<Call("clear", theRange, <<>>, e.client)>>, e.authed)

ClearSheetOut(c, creds, n, sourceRange, resp) ==
    LET e == EnsureClient(c, creds, n) IN
    IF e.err # ErrNil THEN Out(e.client, e.nAuth, e.err, NilArray, <<>>, e.authed)
    ELSE Out(e.client, e.nAuth, IF resp.err THEN ErrTransport ELSE ErrNil, NilArray,
             <<Call("clear", sourceRange, <<>>, e.client)>>, e.authed)

\* A plausible slip: the empty response handed back as a success.
ReadResultNoCheck(values) == [ret |-> Array(values), err |-> ErrNil]

\* if len(result.Values) == 0 { return nil, errors.New("Empty template") }
\* return result.Values, nil
ReadResult(values) ==
    IF Len(values) = 0 THEN [ret |-> NilArray, err |-> ErrEmpty]
    ELSE [ret |-> Array(values), err |-> ErrNil]

GoogleSpreadsheetToDataArrayOut(c, creds, n, sourceRange, resp) ==
    LET e == EnsureClient(c, creds, n)
        calls == <<Call("get", sourceRange, <<>>, e.client)>>
    IN
    IF e.err # ErrNil THEN Out(e.client, e.nAuth, e.err, NilArray, <<>>, e.authed)
    ELSE IF resp.err THEN Out(e.client, e.nAuth, ErrTransport, NilArray, calls, e.authed)
    ELSE LET r == ReadResult(resp.values)
         IN Out(e.client, e.nAuth, r.err, r.ret, calls, e.authed)

\* A plausible slip: only the row count tested before the write.
EmptyDataRowsOnly(data) == Len(data) = 0

\* nbRows == 0 or nbCols == 0: nothing to write
EmptyData(data) == Len(data) = 0 \/ Len(data[1]) = 0

\* A plausible slip: the end of the range taken as the last cell written.
MyRangeTight(destSheet, destRow, destCol, data) ==
    destSheet \o <<33>> \o ColAddress(destCol) \o Itoa(destRow) \o <<58>>
        \o ColAddress(destCol + Len(data[1]) - 1) \o Itoa(destRow + Len(data) - 1)

\* myRange := destSheet + "!" + ColAddress(destCol) + strconv.Itoa(destRow) + ":" +
\*            ColAddress(destCol+nbCols) + strconv.Itoa(destRow+nbRows)
MyRange(destSheet, destRow, destCol, data) ==
    destSheet \o <<33>> \o ColAddress(destCol) \o Itoa(destRow) \o <<58>>
        \o ColAddress(destCol + Len(data[1])) \o Itoa(destRow + Len(data))

DataArrayToGoogleSpreadSheetOut(c, creds, n, destSheet, destRow, destCol, data, resp) ==
    IF EmptyData(data) THEN Out(c, n, ErrNil, NilArray, <<>>, FALSE)
    ELSE
    LET myRange == MyRange(destSheet, destRow, destCol, data)
        e == EnsureClient(c, creds, n)
        calls == <<Call("update", myRange, data, e.client)>>
    IN
    IF e.err # ErrNil THEN Out(e.client, e.nAuth, e.err, NilArray, <<>>, e.authed)
    ELSE IF resp.err THEN Out(e.client, e.nAuth, ErrTransport, NilArray, calls, e.authed)
    ELSE IF resp.status < 200 \/ resp.status > 299
         THEN Out(e.client, e.nAuth, ErrStatus, NilArray, calls, e.authed)
    ELSE Out(e.client, e.nAuth, ErrNil, NilArray, calls, e.authed)

\* nbRows == 0 or len(data[0]) == 0 for map rows
EmptyMapData(data) == Len(data) = 0 \/ DOMAIN data[1] = {}

\* rowvalue[k]: the nil interface when the map has no entry for k
MapGet(m, k) == IF k \in DOMAIN m THEN m[k] ELSE Null

\* A plausible slip: null rendered as text instead of as the empty string.
ScanStringNullText(v) ==
    IF v.kind = "null" THEN <<110, 117, 108, 108>>
    ELSE IF v.kind = "string" THEN v.str
    ELSE IF v.kind = "int" THEN Itoa(v.int)
    ELSE IF v.bool THEN StrTrue ELSE StrFalse

\* var str sql.NullString; str.Scan(v); str.String
ScanString(v) ==
    IF v.kind = "null" THEN <<>>
    ELSE IF v.kind = "string" THEN v.str
    ELSE IF v.kind = "int" THEN Itoa(v.int)
    ELSE IF v.bool THEN StrTrue ELSE StrFalse

\* insertion of k into an ascending sequence
RECURSIVE InsertSorted(_, _)
InsertSorted(k, s) ==
    IF Len(s) = 0 THEN <<k>>
    ELSE IF StrLess(k, s[1]) THEN <<k>> \o s
    ELSE <<s[1]>> \o InsertSorted(k, Tail(s))

\* A plausible slip: the keys left in map iteration order.
SortStringsOmitted(keys) == keys

\* sort.Strings(keys)
RECURSIVE SortStrings(_)
SortStrings(keys) ==
    IF Len(keys) = 0 THEN <<>>
    ELSE InsertSorted(keys[1], SortStrings(Tail(keys)))

\* valueData of DataMapToGoogleSpreadsheet; iter is the order in which
\* "for k := range data[0]" yields the keys of the first row.
ValueData(data, iter) ==
    LET keys == SortStrings(iter)
        nbCols == Cardinality(DOMAIN data[1])
        header == [j \in 1..nbCols |-> StrVal(keys[j])]
    IN <<header>> \o
       [i \in 1..Len(data) |->
           [j \in 1..nbCols |-> StrVal(ScanString(MapGet(data[i], keys[j])))]]

DataMapToGoogleSpreadsheetOut(c, creds, n, sheet, row, column, data, iter, resp) ==
    IF EmptyMapData(data) THEN Out(c, n, ErrNil, NilArray, <<>>, FALSE)
    ELSE DataArrayToGoogleSpreadSheetOut(c, creds, n, sheet, row, column,
                                         ValueData(data, iter), resp)


----------------------------------------------------------------------------
(* Inputs *)

ColInputs == (0 - MaxUnder)..(FirstInvalidCol + MaxOver)

Sheet1 == <<83, 104, 101, 101, 116, 49>>      \* "Sheet1"
Sheets == {Sheet1, <<83>>}                    \* "Sheet1", "S"
DestRows == {2, 8}
DestCols == {0, 2, 25, 673}
Ranges == {<<83, 33, 65, 49, 58, 66, 50>>}    \* "S!A1:B2"

CellX == StrVal(<<120>>)                      \* the cell "x"
RowsOfCells == UNION {[1..m -> {CellX}] : m \in 0..MaxCols}
DataArrays == UNION {[1..n -> RowsOfCells] : n \in 0..MaxRows}

KeyB == <<98>>                                \* "b"
KeyAB == <<97, 98>>                           \* "ab"
Keys == {KeyB, KeyAB}
MapValues == {Null, StrVal(<<120>>), IntVal(0 - 12), BoolVal(TRUE)}
MapRows == UNION {[ks -> MapValues] : ks \in SUBSET Keys}
MapData == UNION {[1..n -> MapRows] : n \in 0..MaxMapRows}
MapDestCols == {2}

\* the orders in which ranging over a map may yield its keys
Orders(ks) ==
    {s \in [1..Cardinality(ks) -> ks] : \A i, j \in 1..Cardinality(ks) : s[i] = s[j] => i = j}

IterationOrders(data) == IF EmptyMapData(data) THEN {<<>>} ELSE Orders(DOMAIN data[1])

\* the answers of the remote service
Resp(err, status, values) == [err |-> err, status |-> status, values |-> values]
Failure == Resp(TRUE, 0, <<>>)
UpdateResponses == {Failure, Resp(FALSE, 200, <<>>), Resp(FALSE, 404, <<>>)}
ClearResponses == {Failure, Resp(FALSE, 200, <<>>)}
ReadResponses == {Failure} \cup {Resp(FALSE, 200, v) : v \in DataArrays}

Procs == 1..NProcs

----------------------------------------------------------------------------
(* State *)

\* The record of a completed call: its arguments (data is the [][]interface{}
\* handed to DataArrayToGoogleSpreadSheet, maps the []map argument), the remote
\* answer it was given, Config.Client before the call, and its outcome.
Last(op, sheet, row, column, data, maps, range, resp, before, o) ==
    [op |-> op, sheet |-> sheet, row |-> row, col |-> column, data |-> data,
     maps |-> maps, range |-> range, resp |-> resp, before |-> before,
     err |-> o.err, ret |-> o.ret, calls |-> o.calls, authed |-> o.authed]

NoCall == Last("none", <<>>, 0, 0, <<>>, <<>>, <<>>, Failure, Nil,
               Out(Nil, 0, ErrNil, NilArray, <<>>, FALSE))

ColIdle ==
    /\ col = 0
    /\ colDone = FALSE
    /\ colRet = <<>>

ConcIdle ==
    /\ pc = [p \in Procs |-> "start"]
    /\ seen = [p \in Procs |-> Nil]
    /\ made = [p \in Procs |-> Nil]
    /\ auths = [p \in Procs |-> 0]

\* A fresh Config: credentials set by the caller, Client left nil.
NewConfig ==
    /\ credentials \in {"valid", "malformed"}
    /\ client = Nil
    /\ nAuth = 0

----------------------------------------------------------------------------
(* ColAddress on its own *)

InitCol ==
    /\ col \in ColInputs
    /\ colDone = FALSE
    /\ colRet = <<>>
    /\ credentials = "valid"
    /\ client = Nil
    /\ nAuth = 0
    /\ last = NoCall
    /\ ConcIdle

CallColAddress ==
    /\ ~colDone
    /\ colRet' = ColAddress(col)
    /\ colDone' = TRUE
    /\ UNCHANGED <<col, cfgVars, seqVars, concVars>>

NextCol == CallColAddress

SpecCol == InitCol /\ [][NextCol]_vars

----------------------------------------------------------------------------------------------------------------------------------------
(* The exported operations as actions; each takes the sets its arguments   *)
(* and the remote answer are drawn from.                                    *)

\* googleAuth is called at most MaxAuth times in a behaviour
CanAuth == NotAuthorized(client) => nAuth < MaxAuth

ClearRange(ranges, resps) ==
    \E theRange \in ranges, resp \in resps :
        /\ CanAuth
        /\ LET o == ClearRangeOut(client, credentials, nAuth, theRange, resp) IN
           /\ client' = o.client
           /\ nAuth' = o.nAuth
           /\ last' = Last("ClearRange", <<>>, 0, 0, <<>>, <<>>, theRange, resp, client, o)
        /\ UNCHANGED <<credentials, colVars, concVars>>

ClearSheet(ranges, resps) ==
    \E sourceRange \in ranges, resp \in resps :
        /\ CanAuth
        /\ LET o == ClearSheetOut(client, credentials, nAuth, sourceRange, resp) IN
           /\ client' = o.client
           /\ nAuth' = o.nAuth
           /\ last' = Last("ClearSheet", <<>>, 0, 0, <<>>, <<>>, sourceRange, resp, client, o)
        /\ UNCHANGED <<credentials, colVars, concVars>>

GoogleSpreadsheetToDataArray(ranges, resps) ==
    \E sourceRange \in ranges, resp \in resps :
        /\ CanAuth
        /\ LET o == GoogleSpreadsheetToDataArrayOut(client, credentials, nAuth,
                                                    sourceRange, resp) IN
           /\ client' = o.client
           /\ nAuth' = o.nAuth
           /\ last' = Last("GoogleSpreadsheetToDataArray", <<>>, 0, 0, <<>>, <<>>,
                           sourceRange, resp, client, o)
        /\ UNCHANGED <<credentials, colVars, concVars>>

DataArrayToGoogleSpreadSheet(sheets, rows, cols, arrays, resps) ==
    \E destSheet \in sheets, destRow \in rows, destCol \in cols,
       data \in arrays, resp \in resps :
        /\ CanAuth
        /\ LET o == DataArrayToGoogleSpreadSheetOut(client, credentials, nAuth,
                                                    destSheet, destRow, destCol, data, resp) IN
           /\ client' = o.client
           /\ nAuth' = o.nAuth
           /\ last' = Last("DataArrayToGoogleSpreadSheet", destSheet, destRow, destCol,
                           data, <<>>, <<>>, resp, client, o)
        /\ UNCHANGED <<credentials, colVars, concVars>>

DataMapToGoogleSpreadsheet(sheets, rows, cols, mapData, resps) ==
    \E sheet \in sheets, row \in rows, column \in cols,
       data \in mapData, resp \in resps :
        \E iter \in IterationOrders(data) :
            /\ CanAuth
            /\ LET o == DataMapToGoogleSpreadsheetOut(client, credentials, nAuth,
                                                      sheet, row, column, data, iter, resp)
                   passed == IF EmptyMapData(data) THEN <<>> ELSE ValueData(data, iter)
               IN
               /\ client' = o.client
               /\ nAuth' = o.nAuth
               /\ last' = Last("DataMapToGoogleSpreadsheet", sheet, row, column,
                               passed, data, <<>>, resp, client, o)
            /\ UNCHANGED <<credentials, colVars, concVars>>

----------------------------------------------------------------------------
(* One call of an exported operation, on a Config that is fresh or already *)
(* holds a client, over the full sets of inputs.                           *)

InitCall ==
    /\ credentials \in {"valid", "malformed"}
    /\ client \in (IF credentials = "valid" THEN {Nil, 1} ELSE {Nil})
    /\ nAuth = (IF client = Nil THEN 0 ELSE 1)
    /\ last = NoCall
    /\ ColIdle
    /\ ConcIdle

FirstCall == last.op = "none"

CallClearRange == FirstCall /\ ClearRange(Ranges, ClearResponses)
CallClearSheet == FirstCall /\ ClearSheet(Ranges, ClearResponses)
CallGoogleSpreadsheetToDataArray ==
    FirstCall /\ GoogleSpreadsheetToDataArray(Ranges, ReadResponses)
CallDataArrayToGoogleSpreadSheet ==
    FirstCall /\ DataArrayToGoogleSpreadSheet(Sheets, DestRows, DestCols, DataArrays,
                                              UpdateResponses)
CallDataMapToGoogleSpreadsheet ==
    FirstCall /\ DataMapToGoogleSpreadsheet({Sheet1}, {2}, MapDestCols, MapData,
                                            UpdateResponses)

NextCall ==
    \/ CallClearRange
    \/ CallClearSheet
    \/ CallGoogleSpreadsheetToDataArray
    \/ CallDataArrayToGoogleSpreadSheet
    \/ CallDataMapToGoogleSpreadsheet

SpecCall == InitCall /\ [][NextCall]_vars

----------------------------------------------------------------------------
(* Any sequence of calls on one Config, one after the other, over small    *)
(* sets of inputs.                                                         *)

SeqArrays == {<<>>, <<<<>>>>, <<<<CellX>>>>}
SeqMaps == {<<>>, <<[k \in {KeyB} |-> Null]>>}
SeqReadResponses == {Failure, Resp(FALSE, 200, <<>>), Resp(FALSE, 200, <<<<CellX>>>>)}

Init ==
    /\ NewConfig
    /\ last = NoCall
    /\ ColIdle
    /\ ConcIdle

SeqClearRange == ClearRange(Ranges, ClearResponses)
SeqClearSheet == ClearSheet(Ranges, ClearResponses)
SeqGoogleSpreadsheetToDataArray == GoogleSpreadsheetToDataArray(Ranges, SeqReadResponses)
SeqDataArrayToGoogleSpreadSheet ==
    DataArrayToGoogleSpreadSheet({Sheet1}, {2}, {0, 2}, SeqArrays, UpdateResponses)
SeqDataMapToGoogleSpreadsheet ==
    DataMapToGoogleSpreadsheet({Sheet1}, {2}, {2}, SeqMaps, UpdateResponses)

Next ==
    \/ SeqClearRange
    \/ SeqClearSheet
    \/ SeqGoogleSpreadsheetToDataArray
    \/ SeqDataArrayToGoogleSpreadSheet
    \/ SeqDataMapToGoogleSpreadsheet

Spec == Init /\ [][Next]_vars

----------------
(* Concurrent calls on one shared Config.  The nil test, the call of        *)
(* googleAuth, the assignment to Config.Client and the use of the client    *)
(* are separate steps of a goroutine, with no lock around them.             *)

InitConc ==
    /\ NewConfig
    /\ last = NoCall
    /\ ColIdle
    /\ ConcIdle

\* What an unsynchronised read of Config.Client by p may return: the value in
\* memory, or the initial nil as long as p has stored no client itself.
Visible(p) == {client} \cup (IF made[p] = Nil THEN {Nil} ELSE {})

\* if googleConf.Client == nil
Check(p) ==
    /\ pc[p] = "start"
    /\ \E v \in Visible(p) :
        /\ seen' = [seen EXCEPT ![p] = v]
        /\ pc' = [pc EXCEPT ![p] = IF NotAuthorized(v) THEN "auth" ELSE "send"]
    /\ UNCHANGED <<made, auths, cfgVars, seqVars, colVars>>

\* googleAuth(googleConf.GoogleCredentials), not yet assigned
Authenticate(p) ==
    /\ pc[p] = "auth"
    /\ nAuth < MaxAuth
    /\ made' = [made EXCEPT ![p] = googleAuth(credentials, nAuth).client]
    /\ auths' = [auths EXCEPT ![p] = auths[p] + 1]
    /\ nAuth' = nAuth + 1
    /\ pc' = [pc EXCEPT ![p] = "store"]
    /\ UNCHANGED <<seen, credentials, client, seqVars, colVars>>

\* A plausible fix that the code does not have: keep a client already stored.
StoredKeepFirst(cur, new) == IF cur = Nil THEN new ELSE cur

\* googleConf.Client, err = ...: the value Config.Client holds after the assignment
Stored(cur, new) == new

\* googleConf.Client, err = <result>; if err != nil { return err }
Store(p) ==
    /\ pc[p] = "store"
    /\ client' = Stored(client, made[p])
    /\ pc' = [pc EXCEPT ![p] = IF made[p] = Nil THEN "start" ELSE "send"]
    /\ UNCHANGED <<seen, made, auths, credentials, nAuth, seqVars, colVars>>

\* sheets.New(googleConf.Client) and the remote call; the call returns
Send(p) ==
    /\ pc[p] = "send"
    /\ \E via \in {client} \cup ({made[p]} \ {Nil}) \cup ({seen[p]} \ {Nil}) :
        last' = Last("concurrent", <<>>, p, 0, <<>>, <<>>, <<>>, Failure, seen[p],
                     Out(client, nAuth, ErrNil, NilArray,
                         <<Call("remote", <<>>, <<>>, via)>>, seen[p] = Nil))
    /\ pc' = [pc EXCEPT ![p] = "start"]
    /\ UNCHANGED <<seen, made, auths, cfgVars, colVars>>

NextConc == \E p \in Procs : Check(p) \/ Authenticate(p) \/ Store(p) \/ Send(p)

SpecConc == InitConc /\ [][NextConc]_vars


----------------------------------------------------------------------------
(* Properties *)

WriteOps == {"DataArrayToGoogleSpreadSheet", "DataMapToGoogleSpreadsheet"}

\* C1: for 1 <= col <= 26, ColAddress(col) is the one-character string made of
\* the uppercase letter at position col-1 of the alphabet ("A" for 1, "Z" for 26).
C1_SingleLetter ==
    (colDone /\ col >= 1 /\ col <= LastSingleLetterCol) => colRet = <<Alphabet[col]>>

C1_Witness == colDone /\ col = 26 /\ colRet = <<90>>

C3_TwoLetters ==
    (colDone /\ col >= 27 /\ col <= 674) =>
        /\ Len(colRet) = 2
        /\ colRet[1] \in UpperCase
        /\ colRet[2] \in UpperCase
        /\ colRet[1] = 65 + (col \div 26) - 1
        /\ colRet[2] = 65 + (col % 26) - 1

\* C4: the range sent in the update call of a write of nbRows x nbCols data is
\* destSheet "!" ColAddress(destCol) destRow ":" ColAddress(destCol+nbCols)
\* (destRow+nbRows); "Sheet1", row 2, column 2, 3 rows of 2 cells gives
\* "Sheet1!B2:D5".
C4_RangeSent ==
    (last.op \in WriteOps /\ Len(last.calls) > 0) =>
        /\ Len(last.calls) = 1
        /\ last.calls[1].kind = "update"
        /\ last.calls[1].range =
              last.sheet \o <<33>> \o ColAddress(last.col) \o Itoa(last.row) \o <<58>>
                  \o ColAddress(last.col + Len(last.data[1]))
                  \o Itoa(last.row + Len(last.data))
        /\ (/\ last.sheet = Sheet1 /\ last.row = 2 /\ last.col = 2
            /\ Len(last.data) = 3 /\ Len(last.data[1]) = 2)
           => last.calls[1].range = <<83, 104, 101, 101, 116, 49, 33, 66, 50, 58, 68, 53>>

C4_Witness ==
    /\ last.op = "DataArrayToGoogleSpreadSheet"
    /\ last.sheet = Sheet1 /\ last.row = 2 /\ last.col = 2
    /\ Len(last.data) = 3
    /\ Len(last.data[1]) = 2
    /\ Len(last.calls) = 1
    /\ last.calls[1].range = <<83, 104, 101, 101, 116, 49, 33, 66, 50, 58, 68, 53>>

\* the data of the last write call has zero rows, or a first row of zero cells (keys)
NothingToWrite ==
    \/ /\ last.op = "DataArrayToGoogleSpreadSheet"
       /\ (Len(last.data) = 0 \/ Len(last.data[1]) = 0)
    \/ /\ last.op = "DataMapToGoogleSpreadsheet"
       /\ (Len(last.maps) = 0 \/ DOMAIN last.maps[1] = {})

\* C5: a write whose data has zero rows, or whose first row has zero columns or
\* keys, returns nil without a network call, without authenticating, and leaves
\* the Config (its Client included) as it was.
C5_EmptyWriteIsNoop ==
    NothingToWrite =>
        /\ last.err = ErrNil
        /\ last.calls = <<>>
        /\ ~last.authed
        /\ client = last.before
        /\ nAuth = (IF last.before = Nil THEN 0 ELSE 1)

C5_Witness ==
    /\ last.op = "DataArrayToGoogleSpreadSheet"
    /\ Len(last.data) = 2
    /\ Len(last.data[1]) = 0
    /\ Len(last.data[2]) > 0
    /\ last.before = Nil
    /\ client = Nil
    /\ last.err = ErrNil
    /\ last.calls = <<>>

\* C6: GoogleSpreadsheetToDataArray returns an error and no array when the
\* response has zero rows, returns the response's values unchanged with a nil
\* error when the response succeeds with at least one row, and never returns an
\* empty array with a nil error.
C6_EmptyReadIsError ==
    last.op = "GoogleSpreadsheetToDataArray" =>
        /\ (Len(last.calls) > 0 /\ ~last.resp.err /\ Len(last.resp.values) = 0)
              => (last.ret.isNil /\ last.err # ErrNil)
        /\ (Len(last.calls) > 0 /\ ~last.resp.err /\ Len(last.resp.values) > 0)
              => (~last.ret.isNil /\ last.ret.rows = last.resp.values /\ last.err = ErrNil)
        /\ ~(last.err = ErrNil /\ Len(last.ret.rows) = 0)

C6_Witness ==
    /\ last.op = "GoogleSpreadsheetToDataArray"
    /\ Len(last.calls) = 1
    /\ ~last.resp.err
    /\ Len(last.resp.values) = 0
    /\ last.ret.isNil
    /\ last.err = ErrEmpty

\* the text of a scalar: a string is itself, an integer its decimal digits, a
\* boolean "true" or "false"
TextOf(v) ==
    IF v.kind = "string" THEN v.str
    ELSE IF v.kind = "int" THEN (IF v.int < 0 THEN <<45>> \o Digits(0 - v.int) ELSE Digits(v.int))
    ELSE IF v.bool THEN <<116, 114, 117, 101>> ELSE <<102, 97, 108, 115, 101>>

\* C7: for map rows whose first row has a key, the array handed to the write has
\* len(rows)+1 rows of equal width; row 0 is the first row's keys in ascending
\* order; row i+1, column j is the text of rows[i][key j], or "" when rows[i]
\* lacks the key or maps it to null; no other key appears.
C7_ShapedArray ==
    (/\ last.op = "DataMapToGoogleSpreadsheet"
     /\ Len(last.maps) > 0
     /\ DOMAIN last.maps[1] # {}) =>
        LET d == last.data
            ks == DOMAIN last.maps[1]
            w == Cardinality(ks)
        IN
        /\ Len(d) = Len(last.maps) + 1
        /\ \A i \in 1..Len(d) : Len(d[i]) = w
        /\ \A j \in 1..w : d[1][j].kind = "string"
        /\ {d[1][j].str : j \in 1..w} = ks
        /\ \A j, k \in 1..w : j < k => StrLess(d[1][j].str, d[1][k].str)
        /\ \A i \in 1..Len(last.maps) : \A j \in 1..w :
              LET m == last.maps[i]
                  key == d[1][j].str
              IN d[i + 1][j] =
                    IF key \notin DOMAIN m \/ m[key].kind = "null"
                    THEN StrVal(<<>>)
                    ELSE StrVal(TextOf(m[key]))
        /\ \A i \in 1..Len(last.calls) : last.calls[i].values = d

C7_Witness ==
    /\ last.op = "DataMapToGoogleSpreadsheet"
    /\ Len(last.maps) = 2
    /\ DOMAIN last.maps[1] = {KeyB, KeyAB}
    /\ last.maps[1][KeyB] = IntVal(0 - 12)
    /\ DOMAIN last.maps[2] = {KeyAB}
    /\ last.maps[2][KeyAB] = Null
    /\ Len(last.data) = 3
    /\ last.data[1] = <<StrVal(KeyAB), StrVal(KeyB)>>
    /\ last.data[2][2] = StrVal(<<45, 49, 50>>)
    /\ last.data[3] = <<StrVal(<<>>), StrVal(<<>>)>>
    /\ Len(last.calls) = 1

\* C8: over a sequence of calls on one Config, Client only moves from absent to
\* present: once present it is never replaced or cleared, googleAuth is called
\* only by an operation that found Client absent, and a failed authentication
\* returns its error with Client still absent and no remote call sent.
C8_ClientMonotonic ==
    [][ /\ (client # Nil => client' = client)
        /\ (nAuth' # nAuth => client = Nil)
        /\ (last'.authed => last'.before = Nil)
        /\ (last'.err = ErrAuth => (client' = Nil /\ last'.calls = <<>>))
      ]_vars

\* a call that found the client cached by an earlier call and sent through it
C8_Witness ==
    /\ client # Nil
    /\ last.before = client
    /\ ~last.authed
    /\ Len(last.calls) = 1
    /\ last.calls[1].via = client
    /\ nAuth = 1

\* C9: with two goroutines on one Config whose Client is absent, the nil test and
\* the assignment are not atomic: every assignment overwrites what Client held
\* (last write wins), a goroutine authenticates whenever its own read found nil,
\* and so both may authenticate and the first stored client be overwritten.
C9_LastWriteWins ==
    [][ \A p \in Procs :
          /\ (pc[p] = "store" /\ pc'[p] # "store") => client' = made[p]
          /\ (pc[p] = "start" /\ pc'[p] = "auth") => seen'[p] = Nil
          /\ (pc[p] = "start" /\ seen'[p] = Nil /\ pc'[p] # "start") => pc'[p] = "auth"
      ]_vars

\* both goroutines read nil, both authenticated, and the client the first one
\* stored has been overwritten by the second one's
C9_Witness ==
    \E p, q \in Procs :
        /\ p # q
        /\ seen[p] = Nil /\ seen[q] = Nil
        /\ auths[p] = 1 /\ auths[q] = 1
        /\ nAuth = 2
        /\ made[p] # Nil /\ made[q] # Nil /\ made[p] # made[q]
        /\ pc[p] = "send" /\ pc[q] = "send"
        /\ client = made[q]

\* C10: every update call is sent with a range whose two column addresses are
\* non-empty; a write with destCol or destCol+nbCols outside 1..674 sends none.
C10_NoEmptyColumnInRange ==
    \A i \in 1..Len(last.calls) :
        last.calls[i].kind = "update" =>
            /\ Len(ColAddress(last.col)) > 0
            /\ Len(ColAddress(last.col + Len(last.data[1]))) > 0
            /\ last.col >= 1
            /\ last.col + Len(last.data[1]) < FirstInvalidCol


====
